---------------------------- MODULE Spec2Model ----------------------------
(***************************************************************************)
(* Model of cmd/restic/main.go: the location parser behind open/create,    *)
(* the init command (CmdInit.Execute) and OpenRepo, run against a storage  *)
(* medium that follows the backend / key-management contract.              *)
(*                                                                         *)
(* Strings are sequences of one-character strings.                         *)
(***************************************************************************)
EXTENDS Integers, Sequences, FiniteSets, TLC

(***************************************************************************)
(* Bounds of the model.                                                    *)
(***************************************************************************)
\* longest raw location string drawn for the parser
MaxLen == 4
\* longest path component (after the separating slash) of a grammar location
MaxPathLen == 2
\* number of distinct repository identifiers that random generation may produce
MaxRepos == 2
\* number of distinct key-derivation salts that random generation may produce
MaxSalts == 1

(***************************************************************************)
(* Characters.                                                             *)
(***************************************************************************)
Letters == {"a", "h", "s", "u"}
Digits == {"1"}
\* characters the raw location strings are drawn from
RawAlphabet == {"a", "1", ":", "/", "@", "?", "#"}

Strings(alphabet, n) == UNION {[1..k -> alphabet] : k \in 0..n}

HasPrefix(s, p) == Len(s) >= Len(p) /\ SubSeq(s, 1, Len(p)) = p

\* strings.Index for a one-character needle: first position, 0 when absent
Index(s, c) ==
  IF \E i \in 1..Len(s) : s[i] = c
  THEN CHOOSE i \in 1..Len(s) : s[i] = c /\ \A j \in 1..(i-1) : s[j] # c
  ELSE 0

\* strings.LastIndex for a one-character needle: last position, 0 when absent
LastIndex(s, c) ==
  IF \E i \in 1..Len(s) : s[i] = c
  THEN CHOOSE i \in 1..Len(s) : s[i] = c /\ \A j \in (i+1)..Len(s) : s[j] # c
  ELSE 0

\* s[i:] of Go, with i a 0-based offset
From(s, i) == SubSeq(s, i + 1, Len(s))

\* s[:i] of Go, with i a 0-based offset
Upto(s, i) == SubSeq(s, 1, i)

(***************************************************************************)
(* net/url.Parse, as called by open and create, after the net/url of       *)
(* current Go releases: a port that is not a number and a colon in the     *)
(* first segment of a relative path are parse errors.  The characters "+", *)
(* "-", "." and "%" are not among those the locations are drawn from.      *)
(***************************************************************************)
RECURSIVE getscheme(_, _)
\* scan of getscheme from position i (1-based)
getscheme(rawurl, i) ==
  IF i > Len(rawurl) THEN [err |-> FALSE, scheme |-> <<>>, rest |-> rawurl]
  ELSE IF rawurl[i] \in Letters THEN getscheme(rawurl, i + 1)
  ELSE IF rawurl[i] \in Digits
       THEN IF i = 1 THEN [err |-> FALSE, scheme |-> <<>>, rest |-> rawurl]
            ELSE getscheme(rawurl, i + 1)
  ELSE IF rawurl[i] = ":"
       THEN IF i = 1 THEN [err |-> TRUE, scheme |-> <<>>, rest |-> <<>>]
            ELSE [err |-> FALSE, scheme |-> Upto(rawurl, i - 1), rest |-> From(rawurl, i)]
  ELSE [err |-> FALSE, scheme |-> <<>>, rest |-> rawurl]

\* ":" followed by digits only, or nothing at all
validOptionalPort(port) ==
  \/ port = <<>>
  \/ /\ port[1] = ":"
     /\ \A i \in 2..Len(port) : port[i] \in Digits

\* parseHost, given the position i of the last ":" (0 when there is none)
hostAt(host, i) ==
  IF i # 0 /\ ~validOptionalPort(From(host, i - 1))
  THEN [err |-> TRUE, host |-> <<>>]
  ELSE [err |-> FALSE, host |-> host]

\* the host must not carry a malformed port
parseHost(host) == hostAt(host, LastIndex(host, ":"))

NoUser == [present |-> FALSE, username |-> <<>>]

\* url.User(...).Username(): the userinfo up to its first ":" (at position c)
userAt(userinfo, c) ==
  [present |-> TRUE, username |-> IF c = 0 THEN userinfo ELSE Upto(userinfo, c - 1)]

\* the authority, once its host h is parsed; the last "@" is at position i
authorityWith(h, authority, i) ==
  IF h.err THEN [err |-> TRUE, user |-> NoUser, host |-> <<>>]
  ELSE IF i = 0 THEN [err |-> FALSE, user |-> NoUser, host |-> h.host]
  ELSE [err |-> FALSE,
        user |-> userAt(Upto(authority, i - 1), Index(Upto(authority, i - 1), ":")),
        host |-> h.host]

\* parseAuthority, given the position i of the last "@" (0 when there is none)
authorityAt(authority, i) ==
  authorityWith(parseHost(IF i = 0 THEN authority ELSE From(authority, i)), authority, i)

\* userinfo is everything before the last "@", the host everything after it
parseAuthority(authority) == authorityAt(authority, LastIndex(authority, "@"))

ParseError == [err |-> TRUE, Scheme |-> <<>>, User |-> NoUser, Host |-> <<>>, Path |-> <<>>]

\* strings.Cut, first half: s up to the first c, all of s when c is absent
CutAt(s, i) == IF i = 0 THEN s ELSE Upto(s, i - 1)

\* the URL of an authority a followed by the path
urlWith(scheme, a, path) ==
  IF a.err THEN ParseError
  ELSE [err |-> FALSE, Scheme |-> scheme, User |-> a.user, Host |-> a.host, Path |-> path]

\* "//authority/path": the authority ends at the first "/" (position k of after)
parseAfter(scheme, after, k) ==
  urlWith(scheme, parseAuthority(CutAt(after, k)), IF k = 0 THEN <<>> ELSE From(after, k - 1))

\* parse, after the scheme and the query are taken off
parseRest(scheme, rest) ==
  IF ~HasPrefix(rest, <<"/">>) /\ scheme # <<>>
  \* a rootless path after a scheme is opaque: Path stays empty
  THEN [err |-> FALSE, Scheme |-> scheme, User |-> NoUser, Host |-> <<>>, Path |-> <<>>]
  ELSE IF ~HasPrefix(rest, <<"/">>) /\ Index(CutAt(rest, Index(rest, "/")), ":") # 0
  \* the first path segment cannot contain a colon
  THEN ParseError
  ELSE IF (scheme # <<>> \/ ~HasPrefix(rest, <<"/", "/", "/">>)) /\ HasPrefix(rest, <<"/", "/">>)
  THEN parseAfter(scheme, From(rest, 2), Index(From(rest, 2), "/"))
  ELSE [err |-> FALSE, Scheme |-> scheme, User |-> NoUser, Host |-> <<>>, Path |-> rest]

\* parse, once getscheme has run
parseScheme(g) ==
  IF g.err THEN ParseError
  ELSE parseRest(g.scheme, CutAt(g.rest, Index(g.rest, "?")))

\* url.Parse: fragment cut off, scheme, query cut off, authority, path
Parse(rawurl) == parseScheme(getscheme(CutAt(rawurl, Index(rawurl, "#")), 1))

(***************************************************************************)
(* open and create: the backend constructor each location is routed to.    *)
(* A call record names the constructor that is invoked and its arguments;  *)
(* outcome "error" is the parse error returned, outcome "panic" the        *)
(* run-time panic of url.Path[1:] on an empty Path.                        *)
(***************************************************************************)
NoCall == [outcome |-> "none", transport |-> "None", fn |-> "none",
           root |-> <<>>, program |-> "none", args |-> <<>>]

\* args of the remote-shell invocation: host, then -l user when a user is named
sshArgs(url) ==
  <<url.Host>>
    \o (IF url.User.present /\ url.User.username # <<>>
        THEN <<<<"-", "l">>, url.User.username>> ELSE <<>>)
    \o <<<<"-", "s">>, <<"s", "f", "t", "p">>>>

open(u) ==
  LET url == Parse(u) IN
  IF url.err
  THEN [NoCall EXCEPT !.outcome = "error"]
  ELSE IF url.Scheme = <<>>
  THEN [outcome |-> "call", transport |-> "Local", fn |-> "local.Open",
        root |-> url.Path, program |-> "none", args |-> <<>>]
  ELSE IF url.Path = <<>>
  THEN [outcome |-> "panic", transport |-> "Remote", fn |-> "none",
        root |-> <<>>, program |-> "none", args |-> sshArgs(url)]
  ELSE [outcome |-> "call", transport |-> "Remote", fn |-> "sftp.Open",
        root |-> Tail(url.Path), program |-> "ssh", args |-> sshArgs(url)]

\* create with the transport chosen by the host instead of the scheme
createByHost(u) ==
  LET url == Parse(u) IN
  IF url.err
  THEN [NoCall EXCEPT !.outcome = "error"]
  ELSE IF url.Host = <<>>
  THEN [outcome |-> "call", transport |-> "Local", fn |-> "local.Create",
        root |-> url.Path, program |-> "none", args |-> <<>>]
  ELSE IF url.Path = <<>>
  THEN [outcome |-> "panic", transport |-> "Remote", fn |-> "none",
        root |-> <<>>, program |-> "none", args |-> sshArgs(url)]
  ELSE [outcome |-> "call", transport |-> "Remote", fn |-> "sftp.Create",
        root |-> Tail(url.Path), program |-> "ssh", args |-> sshArgs(url)]

create(u) ==
  LET url == Parse(u) IN
  IF url.err
  THEN [NoCall EXCEPT !.outcome = "error"]
  ELSE IF url.Scheme = <<>>
  THEN [outcome |-> "call", transport |-> "Local", fn |-> "local.Create",
        root |-> url.Path, program |-> "none", args |-> <<>>]
  ELSE IF url.Path = <<>>
  THEN [outcome |-> "panic", transport |-> "Remote", fn |-> "none",
        root |-> <<>>, program |-> "none", args |-> sshArgs(url)]
  ELSE [outcome |-> "call", transport |-> "Remote", fn |-> "sftp.Create",
        root |-> Tail(url.Path), program |-> "ssh", args |-> sshArgs(url)]

\* the storage a call record binds to
Target(call) == [transport |-> call.transport, args |-> call.args, root |-> call.root]

(***************************************************************************)
(* Locations.                                                              *)
(***************************************************************************)
\* a location written after the grammar scheme://[user@]host[:port]/path
Build(scheme, hasUser, user, host, hasPort, port, path) ==
  scheme \o <<":", "/", "/">>
    \o (IF hasUser THEN user \o <<"@">> ELSE <<>>)
    \o host
    \o (IF hasPort THEN <<":">> \o port ELSE <<>>)
    \o <<"/">> \o path

Schemes == {<<"s">>, <<"s", "1">>}
Users == {<<>>, <<"u">>}
Hosts == {<<"h">>}
Ports == {<<"1">>}
Paths == Strings({"a", "/"}, MaxPathLen)

\* the parts of a grammar location
GrammarParts ==
  [kind : {"grammar"}, scheme : Schemes, hasUser : BOOLEAN, user : Users, host : Hosts,
   hasPort : BOOLEAN, port : Ports, path : Paths]

\* a location given as a raw string
RawParts(u) ==
  [kind |-> "raw", scheme |-> <<>>, hasUser |-> FALSE, user |-> <<>>, host |-> <<>>,
   hasPort |-> FALSE, port |-> <<>>, path |-> u]

LocationOf(p) ==
  IF p.kind = "raw" THEN p.path
  ELSE Build(p.scheme, p.hasUser, p.user, p.host, p.hasPort, p.port, p.path)

\* the locations the commands of the process model are run with
RepoLocations ==
  { <<>>,
    <<"/", "a">>,
    <<"/", "/", "h", "/", "a">>,
    <<"s", ":", "/", "/", "h", "/", "a">>,
    <<"s", ":", "/", "/", "h">>,
    <<":", "a">> }

Targets ==
  {Target(open(u)) : u \in {v \in RepoLocations : open(v).outcome = "call"}}
    \cup {Target(create(u)) : u \in {v \in RepoLocations : create(v).outcome = "call"}}


(***************************************************************************)
(* The storage medium and the key management, after the backend contract.  *)
(***************************************************************************)
IDs == 1..MaxRepos
Salts == 1..MaxSalts

\* no storage at the location; config 0 stands for "no configuration blob"
NoStorage == [exists |-> FALSE, keys |-> {}, config |-> 0]

\* transport establishment or medium failure, by transport
FaultKind(t) == IF t.transport = "Remote" THEN "ConnectionFailed" ELSE "IOError"

\* Create: fails on existing storage, else lays out the empty skeleton
backendCreate(st, t, f) ==
  IF f THEN [err |-> FaultKind(t), st |-> st]
  ELSE IF st[t].exists THEN [err |-> "AlreadyExists", st |-> st]
  ELSE [err |-> "nil", st |-> [st EXCEPT ![t] = [exists |-> TRUE, keys |-> {}, config |-> 0]]]

\* Open: binds to existing storage, fails where no repository layout is found
backendOpen(st, t, f) ==
  IF f THEN FaultKind(t)
  ELSE IF ~st[t].exists THEN "NotFound"
  ELSE "nil"

\* password-based key derivation: one key per password and salt
KDF(p, salt) == <<p, salt>>

\* a key record: the salt and the master keys sealed under the derived key
NewKey(p, salt) == [salt |-> salt, sealed |-> KDF(p, salt)]

\* authenticated decryption of a key record with a candidate password
Unlocks(rec, p) == KDF(p, rec.salt) = rec.sealed

InitOutcomes == {"ok", "fail_before_key", "fail_after_key"}

\* Init: fresh identifier and keys; persists the key record, then the configuration
repoInit(st, t, p, id, salt, o) ==
  IF o = "fail_before_key" THEN [err |-> "IOError", st |-> st]
  ELSE IF o = "fail_after_key"
  THEN [err |-> "IOError",
        st |-> [st EXCEPT ![t].keys = @ \cup {NewKey(p, salt)}]]
  ELSE [err |-> "nil",
        st |-> [st EXCEPT ![t].keys = @ \cup {NewKey(p, salt)}, ![t].config = id]]

\* SearchKey: trial decryption of every key record, then the configuration is loaded
searchKey(st, t, p, f) ==
  IF f THEN [err |-> "IOError", id |-> 0]
  ELSE IF ~\E rec \in st[t].keys : Unlocks(rec, p) THEN [err |-> "InvalidPassword", id |-> 0]
  ELSE IF st[t].config = 0 THEN [err |-> "NotFound", id |-> 0]
  ELSE [err |-> "nil", id |-> st[t].config]

(***************************************************************************)
(* State.                                                                  *)
(***************************************************************************)
VARIABLES
  repo,          \* opts.Repo
  loc,           \* the parts opts.Repo was written from
  env,           \* RESTIC_PASSWORD
  cmd,           \* the function running: "none", "init" (CmdInit.Execute), "open" (OpenRepo)
  pc,            \* its position
  pw, pw2,       \* the passwords read
  be,            \* the backend handle obtained from create or open
  s,             \* the repository object built on be
  ret,           \* what the function returned, or the reason the process exited
  storage,       \* the storage medium, per target
  openCall,      \* the call open made
  createCall,    \* the call create made
  startStorage,  \* the medium when the function started
  fault,         \* a transport or medium failure occurred in this run
  created,       \* per target, the password and identifier of a completed init
  aborted,       \* targets whose create succeeded and whose Init then failed
  refused        \* targets where an open was refused for its password since the init

vars == <<repo, loc, env, cmd, pc, pw, pw2, be, s, ret, storage, openCall, createCall,
          startStorage, fault, created, aborted, refused>>

NoTarget == Target(NoCall)
NoHandle == [valid |-> FALSE, target |-> NoTarget, closed |-> FALSE]
NoRepository == [valid |-> FALSE, be |-> NoHandle, id |-> 0]
NoReturn == [handle |-> NoRepository, err |-> "none"]
NotCreated == [valid |-> FALSE, pw |-> <<>>, id |-> 0]

\* what the terminal may deliver
TermInputs == {<<>>, <<"a">>, <<"s">>}
\* values of RESTIC_PASSWORD; the empty string is an unset variable
EnvValues == {<<>>, <<"a">>}

Ended == {"returned", "exited", "panicked"}

\* readPassword: the environment variable when set, else the terminal (which may fail)
readPassword(e) ==
  IF e # <<>> THEN {[ok |-> TRUE, pw |-> e]}
  ELSE {[ok |-> TRUE, pw |-> p] : p \in TermInputs} \cup {[ok |-> FALSE, pw |-> <<>>]}


(***************************************************************************)
(* The process model: one command at a time, statement by statement.       *)
(***************************************************************************)
Init ==
  /\ repo = <<>>
  /\ loc = RawParts(<<>>)
  /\ env = <<>>
  /\ cmd = "none"
  /\ pc = "idle"
  /\ pw = <<>>
  /\ pw2 = <<>>
  /\ be = NoHandle
  /\ s = NoRepository
  /\ ret = NoReturn
  /\ storage = [t \in Targets |-> NoStorage]
  /\ openCall = NoCall
  /\ createCall = NoCall
  /\ startStorage = [t \in Targets |-> NoStorage]
  /\ fault = FALSE
  /\ created = [t \in Targets |-> NotCreated]
  /\ aborted = {}
  /\ refused = {}

\* main: the process starts with a location and an environment, and runs a command
Start ==
  /\ pc = "idle"
  /\ \E u \in RepoLocations, e \in EnvValues, c \in {"init", "open"} :
       /\ repo' = u
       /\ loc' = RawParts(u)
       /\ env' = e
       /\ cmd' = c
       /\ pc' = IF c = "init" THEN "init_check" ELSE "open_check"
  /\ startStorage' = storage
  /\ UNCHANGED <<pw, pw2, be, s, ret, storage, openCall, createCall, fault, created,
                 aborted, refused>>

\* CmdInit.Execute: the location must be given
InitCheck ==
  /\ pc = "init_check"
  /\ IF repo = <<>>
     THEN /\ pc' = "returned"
          /\ ret' = [handle |-> NoRepository, err |-> "NoLocation"]
     ELSE /\ pc' = "init_pw"
          /\ ret' = ret
  /\ UNCHANGED <<repo, loc, env, cmd, pw, pw2, be, s, storage, openCall, createCall,
                 startStorage, fault, created, aborted, refused>>

\* CmdInit.Execute: first password entry
InitReadPw ==
  /\ pc = "init_pw"
  /\ \E r \in readPassword(env) :
       IF r.ok
       THEN /\ pw' = r.pw
            /\ pc' = "init_pw2"
            /\ ret' = ret
       ELSE /\ pw' = pw
            /\ pc' = "exited"
            /\ ret' = [handle |-> NoRepository, err |-> "ReadPassword"]
  /\ UNCHANGED <<repo, loc, env, cmd, pw2, be, s, storage, openCall, createCall,
                 startStorage, fault, created, aborted, refused>>

\* CmdInit.Execute: second password entry
InitReadPw2 ==
  /\ pc = "init_pw2"
  /\ \E r \in readPassword(env) :
       IF r.ok
       THEN /\ pw2' = r.pw
            /\ pc' = "init_cmp"
            /\ ret' = ret
       ELSE /\ pw2' = pw2
            /\ pc' = "exited"
            /\ ret' = [handle |-> NoRepository, err |-> "ReadPassword"]
  /\ UNCHANGED <<repo, loc, env, cmd, pw, be, s, storage, openCall, createCall,
                 startStorage, fault, created, aborted, refused>>

\* InitCompare without the comparison's exit: unequal entries go on to create
InitCompareNoExit ==
  /\ pc = "init_cmp"
  /\ pc' = "init_create"
  /\ UNCHANGED <<repo, loc, env, cmd, pw, pw2, be, s, ret, storage, openCall, createCall,
                 startStorage, fault, created, aborted, refused>>

\* CmdInit.Execute: the two entries must be equal
InitCompare ==
  /\ pc = "init_cmp"
  /\ IF pw # pw2
     THEN /\ pc' = "exited"
          /\ ret' = [handle |-> NoRepository, err |-> "PasswordMismatch"]
     ELSE /\ pc' = "init_create"
          /\ ret' = ret
  /\ UNCHANGED <<repo, loc, env, cmd, pw, pw2, be, s, storage, openCall, createCall,
                 startStorage, fault, created, aborted, refused>>

\* InitCreate that reports a failed create and goes on to Init all the same, on a
\* handle bound to the storage found there
InitCreateNoExit ==
  /\ pc = "init_create"
  /\ createCall' = create(repo)
  /\ \E f \in BOOLEAN :
       LET c == create(repo)
           r == backendCreate(storage, Target(c), f)
       IN IF c.outcome = "error"
          THEN /\ pc' = "exited"
               /\ ret' = [handle |-> NoRepository, err |-> "ParseError"]
               /\ UNCHANGED <<be, storage, fault>>
          ELSE IF c.outcome = "panic"
          THEN /\ pc' = "panicked"
               /\ UNCHANGED <<ret, be, storage, fault>>
          ELSE /\ pc' = "init_init"
               /\ be' = [valid |-> TRUE, target |-> Target(c), closed |-> FALSE]
               /\ storage' = r.st
               /\ fault' = (fault \/ f)
               /\ ret' = ret
  /\ UNCHANGED <<repo, loc, env, cmd, pw, pw2, s, openCall, startStorage, created,
                 aborted, refused>>

\* CmdInit.Execute: create the backend; any error ends the process
InitCreate ==
  /\ pc = "init_create"
  /\ createCall' = create(repo)
  /\ \E f \in BOOLEAN :
       LET c == create(repo)
           r == backendCreate(storage, Target(c), f)
       IN IF c.outcome = "error"
          THEN /\ pc' = "exited"
               /\ ret' = [handle |-> NoRepository, err |-> "ParseError"]
               /\ UNCHANGED <<be, storage, fault>>
          ELSE IF c.outcome = "panic"
          THEN /\ pc' = "panicked"
               /\ UNCHANGED <<ret, be, storage, fault>>
          ELSE IF r.err # "nil"
          THEN /\ pc' = "exited"
               /\ ret' = [handle |-> NoRepository, err |-> r.err]
               /\ fault' = (fault \/ f)
               /\ UNCHANGED <<be, storage>>
          ELSE /\ pc' = "init_init"
               /\ be' = [valid |-> TRUE, target |-> Target(c), closed |-> FALSE]
               /\ storage' = r.st
               /\ UNCHANGED <<ret, fault>>
  /\ UNCHANGED <<repo, loc, env, cmd, pw, pw2, s, openCall, startStorage, created,
                 aborted, refused>>

\* CmdInit.Execute: repository.New(be), then Init(pw); an error ends the process
InitInit ==
  /\ pc = "init_init"
  /\ \E id \in IDs, salt \in Salts, o \in InitOutcomes :
       LET r == repoInit(storage, be.target, pw, id, salt, o)
       IN /\ storage' = r.st
          /\ IF r.err # "nil"
             THEN /\ pc' = "exited"
                  /\ ret' = [handle |-> NoRepository, err |-> r.err]
                  /\ s' = [valid |-> TRUE, be |-> be, id |-> 0]
                  /\ fault' = TRUE
                  /\ aborted' = aborted \cup {be.target}
             ELSE /\ pc' = "init_print"
                  /\ s' = [valid |-> TRUE, be |-> be, id |-> id]
                  /\ UNCHANGED <<ret, fault, aborted>>
  /\ UNCHANGED <<repo, loc, env, cmd, pw, pw2, be, openCall, createCall, startStorage, created,
                 refused>>

\* CmdInit.Execute: the identifier is printed and nil is returned
InitReturn ==
  /\ pc = "init_print"
  /\ pc' = "returned"
  /\ ret' = [handle |-> NoRepository, err |-> "nil"]
  /\ created' = [created EXCEPT ![be.target] = [valid |-> TRUE, pw |-> pw, id |-> s.id]]
  /\ UNCHANGED <<repo, loc, env, cmd, pw, pw2, be, s, storage, openCall, createCall,
                 startStorage, fault, aborted, refused>>

\* OpenRepo: the location must be given
OpenCheck ==
  /\ pc = "open_check"
  /\ IF repo = <<>>
     THEN /\ pc' = "returned"
          /\ ret' = [handle |-> NoRepository, err |-> "NoLocation"]
     ELSE /\ pc' = "open_open"
          /\ ret' = ret
  /\ UNCHANGED <<repo, loc, env, cmd, pw, pw2, be, s, storage, openCall, createCall,
                 startStorage, fault, created, aborted, refused>>

\* OpenRepo: open the backend; an error is returned to the caller
OpenOpen ==
  /\ pc = "open_open"
  /\ openCall' = open(repo)
  /\ \E f \in BOOLEAN :
       LET c == open(repo)
           err == backendOpen(storage, Target(c), f)
       IN IF c.outcome = "error"
          THEN /\ pc' = "returned"
               /\ ret' = [handle |-> NoRepository, err |-> "ParseError"]
               /\ UNCHANGED <<be, fault>>
          ELSE IF c.outcome = "panic"
          THEN /\ pc' = "panicked"
               /\ UNCHANGED <<ret, be, fault>>
          ELSE IF err # "nil"
          THEN /\ pc' = "returned"
               /\ ret' = [handle |-> NoRepository, err |-> err]
               /\ fault' = (fault \/ f)
               /\ be' = be
          ELSE /\ pc' = "open_pw"
               /\ be' = [valid |-> TRUE, target |-> Target(c), closed |-> FALSE]
               /\ UNCHANGED <<ret, fault>>
  /\ UNCHANGED <<repo, loc, env, cmd, pw, pw2, s, storage, createCall, startStorage,
                 created, aborted, refused>>

\* OpenRepo: repository.New(be); the password is read as the argument of SearchKey
OpenReadPw ==
  /\ pc = "open_pw"
  /\ s' = [valid |-> TRUE, be |-> be, id |-> 0]
  /\ \E r \in readPassword(env) :
       IF r.ok
       THEN /\ pw' = r.pw
            /\ pc' = "open_search"
            /\ ret' = ret
       ELSE /\ pw' = pw
            /\ pc' = "exited"
            /\ ret' = [handle |-> NoRepository, err |-> "ReadPassword"]
  /\ UNCHANGED <<repo, loc, env, cmd, pw2, be, storage, openCall, createCall,
                 startStorage, fault, created, aborted, refused>>

\* OpenSearchKey with the error test inverted: a found key is reported as a failure
OpenSearchKeyInverted ==
  /\ pc = "open_search"
  /\ \E f \in BOOLEAN :
       LET r == searchKey(storage, be.target, pw, f)
       IN /\ pc' = "returned"
          /\ fault' = (fault \/ f)
          /\ refused' = IF r.err = "InvalidPassword" THEN refused \cup {be.target} ELSE refused
          /\ IF r.err = "nil"
             THEN /\ ret' = [handle |-> NoRepository, err |-> "unable to open repo"]
                  /\ s' = s
             ELSE /\ s' = [s EXCEPT !.id = r.id]
                  /\ ret' = [handle |-> [s EXCEPT !.id = r.id], err |-> "nil"]
  /\ UNCHANGED <<repo, loc, env, cmd, pw, pw2, be, storage, openCall, createCall,
                 startStorage, created, aborted>>

\* OpenSearchKey that drops the error of SearchKey and returns the repository
OpenSearchKeyIgnoresError ==
  /\ pc = "open_search"
  /\ \E f \in BOOLEAN :
       LET r == searchKey(storage, be.target, pw, f)
       IN /\ pc' = "returned"
          /\ fault' = (fault \/ f)
          /\ refused' = IF r.err = "InvalidPassword" THEN refused \cup {be.target} ELSE refused
          /\ s' = [s EXCEPT !.id = r.id]
          /\ ret' = [handle |-> [s EXCEPT !.id = r.id], err |-> "nil"]
  /\ UNCHANGED <<repo, loc, env, cmd, pw, pw2, be, storage, openCall, createCall,
                 startStorage, created, aborted>>

\* OpenRepo: SearchKey; its error is returned (wrapped), else the repository
OpenSearchKey ==
  /\ pc = "open_search"
  /\ \E f \in BOOLEAN :
       LET r == searchKey(storage, be.target, pw, f)
       IN /\ pc' = "returned"
          /\ fault' = (fault \/ f)
          /\ refused' = IF r.err = "InvalidPassword" THEN refused \cup {be.target} ELSE refused
          /\ IF r.err # "nil"
             THEN /\ ret' = [handle |-> NoRepository, err |-> r.err]
                  /\ s' = s
             ELSE /\ s' = [s EXCEPT !.id = r.id]
                  /\ ret' = [handle |-> [s EXCEPT !.id = r.id], err |-> "nil"]
  /\ UNCHANGED <<repo, loc, env, cmd, pw, pw2, be, storage, openCall, createCall,
                 startStorage, created, aborted>>

\* the function has ended: the process is over, the next one may start
Finish ==
  /\ pc \in Ended
  /\ pc' = "idle"
  /\ cmd' = "none"
  /\ repo' = <<>>
  /\ loc' = RawParts(<<>>)
  /\ env' = <<>>
  /\ pw' = <<>>
  /\ pw2' = <<>>
  /\ be' = NoHandle
  /\ s' = NoRepository
  /\ ret' = NoReturn
  /\ openCall' = NoCall
  /\ createCall' = NoCall
  /\ fault' = FALSE
  /\ startStorage' = storage
  /\ UNCHANGED <<storage, created, aborted, refused>>

\* between two runs the underlying storage of a location may be removed
RemoveStorage ==
  /\ pc = "idle"
  /\ \E t \in Targets :
       /\ storage[t].exists
       /\ storage' = [storage EXCEPT ![t] = NoStorage]
       /\ startStorage' = [storage EXCEPT ![t] = NoStorage]
       /\ created' = [created EXCEPT ![t] = NotCreated]
       /\ aborted' = aborted \ {t}
       /\ refused' = refused \ {t}
  /\ UNCHANGED <<repo, loc, env, cmd, pc, pw, pw2, be, s, ret, openCall, createCall, fault>>

Next ==
  \/ Start
  \/ InitCheck
  \/ InitReadPw
  \/ InitReadPw2
  \/ InitCompare
  \/ InitCreate
  \/ InitInit
  \/ InitReturn
  \/ OpenCheck
  \/ OpenOpen
  \/ OpenReadPw
  \/ OpenSearchKey
  \/ Finish
  \/ RemoveStorage

Spec == Init /\ [][Next]_vars

(***************************************************************************)
(* The location model: open and create applied to every location.          *)
(***************************************************************************)
\* grammar locations, each written once
Locations ==
  {p \in GrammarParts : (~p.hasUser => p.user = <<>>)}
    \cup {RawParts(u) : u \in Strings(RawAlphabet, MaxLen)}

InitLoc ==
  /\ loc \in Locations
  /\ repo = LocationOf(loc)
  /\ env = <<>>
  /\ cmd = "none"
  /\ pc = "idle"
  /\ pw = <<>>
  /\ pw2 = <<>>
  /\ be = NoHandle
  /\ s = NoRepository
  /\ ret = NoReturn
  /\ storage = [t \in Targets |-> NoStorage]
  /\ openCall = NoCall
  /\ createCall = NoCall
  /\ startStorage = [t \in Targets |-> NoStorage]
  /\ fault = FALSE
  /\ created = [t \in Targets |-> NotCreated]
  /\ aborted = {}
  /\ refused = {}

\* open is applied to the location
LocOpen ==
  /\ openCall = NoCall
  /\ openCall' = open(repo)
  /\ UNCHANGED <<repo, loc, env, cmd, pc, pw, pw2, be, s, ret, storage, createCall,
                 startStorage, fault, created, aborted, refused>>

\* create is applied to the location
LocCreate ==
  /\ createCall = NoCall
  /\ createCall' = create(repo)
  /\ UNCHANGED <<repo, loc, env, cmd, pc, pw, pw2, be, s, ret, storage, openCall,
                 startStorage, fault, created, aborted, refused>>

NextLoc ==
  \/ LocOpen
  \/ LocCreate

SpecLoc == InitLoc /\ [][NextLoc]_vars


(***************************************************************************)
(* Claims about the location parser (checked under SpecLoc).               *)
(***************************************************************************)
\* a bare file name: letters, digits and slashes, not starting with exactly two slashes
IsBarePath(u) ==
  /\ u # <<>>
  /\ \A i \in 1..Len(u) : u[i] \in Letters \cup Digits \cup {"/"}
  /\ (HasPrefix(u, <<"/", "/">>) => HasPrefix(u, <<"/", "/", "/">>))

ExpectedArgs(p) ==
  <<p.host>>
    \o (IF p.hasUser /\ p.user # <<>> THEN <<<<"-", "l">>, p.user>> ELSE <<>>)
    \o <<<<"-", "s">>, <<"s", "f", "t", "p">>>>

\* what the claim asks of one call made for the grammar location p
RemoteCallAsClaimed(c, p) ==
  /\ c.outcome = "call"
  /\ c.transport = "Remote"
  /\ c.program = "ssh"
  /\ c.args = ExpectedArgs(p)
  /\ c.root = p.path

\* C4: for every location scheme://[user@]host[:port]/path, the remote-shell
\* invocation of open and of create receives the host, the user as a login argument
\* exactly when a non-empty user is named, and as root the path without its one
\* leading separator.
C4_RemoteInvocation ==
  (loc.kind = "grammar" /\ openCall # NoCall /\ createCall # NoCall) =>
    RemoteCallAsClaimed(openCall, loc) /\ RemoteCallAsClaimed(createCall, loc)

\* C5: for every location, open and create end by returning a backend handle (the
\* result of the backend constructor) or an error value.
C5_ReturnsHandleOrError ==
  /\ openCall # NoCall => openCall.outcome \in {"call", "error"}
  /\ createCall # NoCall => createCall.outcome \in {"call", "error"}


(***************************************************************************)
(* Claims about the commands (checked under Spec).                         *)
(***************************************************************************)
FaultKinds == {"ConnectionFailed", "IOError"}

\* C1: when create succeeded and the following Init failed, a later open of the same
\* location reports the repository as not found: the backend open fails with
\* NotFound, and the location is treated neither as a repository nor as a damaged one.
C1_AbortedCreateNotFound ==
  (/\ cmd = "open"
   /\ pc \notin {"open_check", "open_open"}
   /\ openCall.outcome = "call"
   /\ Target(openCall) \in aborted
   /\ ~fault) =>
    (~be.valid /\ pc = "returned" /\ ret.err = "NotFound")

\* C2: when CmdInit.Execute or OpenRepo has ended, a backend handle it obtained and
\* did not hand to its caller inside the returned repository has been closed.
C2_HandlesClosed ==
  (pc \in Ended /\ be.valid /\ ret.handle.be # be) => be.closed

\* C6: an open of a repository with the password it was created with never exposes
\* another identifier than the one produced at creation and, when transport and
\* medium do not fail, succeeds and exposes that identifier, whatever opens were
\* refused in between.
C6_OpenWithCreationPassword ==
  (/\ cmd = "open"
   /\ pc = "returned"
   /\ openCall.outcome = "call"
   /\ created[Target(openCall)].valid
   /\ pw = created[Target(openCall)].pw) =>
    /\ ret.handle.valid => ret.handle.id = created[Target(openCall)].id
    /\ ret.handle.valid <=> ret.err = "nil"
    /\ ~fault => ret.handle.valid
    /\ fault => ret.err \in FaultKinds \cup {"nil"}

\* C6 witness: the creation password opens the repository, with the identifier of its
\* creation, after an open with another password was refused.
C6_Witness ==
  /\ cmd = "open"
  /\ pc = "returned"
  /\ openCall.outcome = "call"
  /\ created[Target(openCall)].valid
  /\ pw = created[Target(openCall)].pw
  /\ Target(openCall) \in refused
  /\ ret.handle.valid
  /\ ret.handle.id = created[Target(openCall)].id

\* C7: an open of a repository with another password than the one it was created with
\* returns an error and no repository, and the error is InvalidPassword when transport
\* and medium do not fail.
C7_OpenWithOtherPassword ==
  (/\ cmd = "open"
   /\ pc = "returned"
   /\ be.valid
   /\ created[be.target].valid
   /\ pw # created[be.target].pw) =>
    /\ ~ret.handle.valid
    /\ ret.err \in FaultKinds \cup {"InvalidPassword"}
    /\ ~fault => ret.err = "InvalidPassword"

\* C7 witness: an open with another password has returned InvalidPassword.
C7_Witness ==
  /\ cmd = "open"
  /\ pc = "returned"
  /\ be.valid
  /\ created[be.target].valid
  /\ pw # created[be.target].pw
  /\ ret.err = "InvalidPassword"

\* C8: an init on a location whose storage exists fails at create, with AlreadyExists
\* when the transport can be established; the command ends there, Init is not called and
\* nothing is written to the storage.
C8_SecondCreateFails ==
  (/\ cmd = "init"
   /\ createCall.outcome = "call"
   /\ startStorage[Target(createCall)].exists) =>
    /\ pc = "exited"
    /\ ret.err \in FaultKinds \cup {"AlreadyExists"}
    /\ ~fault => ret.err = "AlreadyExists"
    /\ ~be.valid
    /\ ~s.valid
    /\ storage = startStorage

\* C8 witness: the second init of an initialised repository has ended with
\* AlreadyExists.
C8_Witness ==
  /\ cmd = "init"
  /\ createCall.outcome = "call"
  /\ created[Target(createCall)].valid
  /\ startStorage[Target(createCall)].exists
  /\ pc = "exited"
  /\ ret.err = "AlreadyExists"

\* C9: in CmdInit.Execute the storage changes only once the location is non-empty,
\* both password entries are equal and create has been called; Init runs only on the
\* handle of a successful create; with an empty location or unequal entries the
\* command ends with no backend created or modified.
C9_CreateAfterChecks ==
  /\ (cmd = "init" /\ (storage # startStorage \/ createCall # NoCall)) =>
       (repo # <<>> /\ pw = pw2)
  /\ (cmd = "init" /\ storage # startStorage) =>
       (be.valid /\ createCall.outcome = "call")
  /\ (cmd = "init" /\ s.valid) =>
       (be.valid /\ s.be = be /\ storage[be.target].exists)
  /\ (cmd = "init" /\ pc \in Ended /\ (repo = <<>> \/ pw # pw2)) =>
       (storage = startStorage /\ ~be.valid /\ createCall = NoCall)

\* C9 witness: the command has ended on unequal password entries.
C9_Witness ==
  /\ cmd = "init"
  /\ pc = "exited"
  /\ repo # <<>>
  /\ pw # pw2
  /\ ret.err = "PasswordMismatch"

\* C10: OpenRepo returns a repository exactly when the location is non-empty, the
\* backend was opened and the key search succeeded; in every other case it returns an
\* error and no repository; and the password is read only on an opened backend.
C10_OpenRepoOutcome ==
  /\ (cmd = "open" /\ pc \in {"returned", "panicked"}) =>
       /\ ret.handle.valid <=> (repo # <<>> /\ be.valid /\ s.id # 0)
       /\ ret.handle.valid => ret.err = "nil"
       /\ ~ret.handle.valid => ret.err \notin {"nil", "none"}
  /\ (cmd = "open" /\ pc = "open_search") => be.valid

=============================================================================
